---- MODULE Spec2Model ----
(***************************************************************************)
(* Model of the two variants of the DAX sample command-line tool:          *)
(*   src/unnamed/part_000  (static region, validation checks table ops)    *)
(*   src/try_dax.go        (region from EC2 metadata, per-executor client) *)
(* One run of the process is a behaviour from Init to pc = "exit".         *)
(* The backend, the session constructor, the metadata service and the DAX  *)
(* client constructor are external: each call may succeed or fail.         *)
(***************************************************************************)
EXTENDS Bags, FiniteSets, Integers, Sequences, TLC

VARIABLES
    variant,      \* which source file is running
    args,         \* the command line of the process
    commandsMsg,  \* try_dax.go:49, computed at package initialisation
    service, command, endpoint, verbose, region,   \* the flag values
    pc,           \* position of main
    sessions,     \* session.NewSession calls that returned a session
    metaCalls,    \* requests sent to the instance-metadata service
    daxDials,     \* dax.New calls (cluster discovery against the endpoint)
    client,       \* the client handle held: "nil", "ddb" or "dax"
    executor,     \* the executors invoked by the dispatch
    fallthrough,  \* executeCommand reached its "unknown command" return
    c, i, j,      \* loop counters of the running executor
    nreq,         \* requests sent to the backend
    lastReq,      \* the last request sent
    issued,       \* bag of the requests sent
    failedAt,     \* index (from 1) of the request the backend failed, or 0
    validateErr,  \* result of validate: NotRun, nil or the error text
    initErr,      \* error of session / region / client construction in main
    execErr,      \* result of the executor: NotRun, nil or the error text
    stderr,       \* lines written to the error stream
    nVerbose,     \* verbose lines written to standard output
    nSummary,     \* timing summary lines written to standard output
    summaryAt,    \* value of nreq when the summary was written
    summary,      \* <<d, d / iterations>> of the summary line
    exitCode,     \* exit status of the process, NotRun while running
    prevErr       \* validation error of the previous run with these flags

vars == <<variant, args, commandsMsg, service, command, endpoint, verbose,
          region, pc, sessions, metaCalls, daxDials, client, executor,
          fallthrough, c, i, j, nreq, lastReq, issued, failedAt, validateErr,
          initErr, execErr, stderr, nVerbose, nSummary, summaryAt, summary,
          exitCode, prevErr>>

flagVars == <<service, command, endpoint, verbose, region>>
netVars  == <<sessions, metaCalls, daxDials, client>>
loopVars == <<c, i, j>>
reqVars  == <<nreq, lastReq, issued, failedAt, nVerbose>>
outVars  == <<nSummary, summaryAt, summary>>
runVars  == <<variant, args, commandsMsg, prevErr>>

-----------------------------------------------------------------------------
(* Bounds of the model *)

\* map iteration orders considered: iteration starts at offset 0..MaxShift
MaxShift == 2
\* the elapsed time of a timed loop is drawn from 0..MaxElapsed
MaxElapsed == 60

-----------------------------------------------------------------------------
(* Values *)

Sample == "part_000"
TryDax == "try_dax.go"
Variants == {Sample, TryDax}

nil    == "<nil>"
NotRun == "<not run>"
NoReq  == [op |-> "none"]

RECURSIVE Join(_, _)
\* strings.Join
Join(s, sep) ==
    IF Len(s) = 0 THEN ""
    ELSE IF Len(s) = 1 THEN s[1]
    ELSE s[1] \o sep \o Join(Tail(s), sep)

\* part_000:17 and try_dax.go:28
services == <<"dynamodb", "dax">>
\* part_000:18
commands == <<"create-table", "put-item", "get-item", "query", "scan", "delete-table">>

\* try_dax.go:30-37, the keys of the map literal in the order written
commandMapKeys == <<"create-table", "delete-table", "put-item", "get-item", "query", "scan">>

\* try_dax.go:30-37
commandMap ==
    [k \in {commandMapKeys[n] : n \in 1..Len(commandMapKeys)} |->
        CASE k = "create-table" -> "executeCreateTable"
          [] k = "delete-table" -> "executeDeleteTable"
          [] k = "put-item"     -> "executePutItem"
          [] k = "get-item"     -> "executeGetItem"
          [] k = "query"        -> "executeQuery"
          [] k = "scan"         -> "executeScan"]

\* try_dax.go:39-47: the keys in the order the map iteration yields them.
\* Go leaves that order unspecified and it differs from run to run; `shift`
\* is the offset at which the iteration starts.
listOfKeys(shift) ==
    [n \in 1..Len(commandMapKeys) |->
        commandMapKeys[((n - 1 + shift) % Len(commandMapKeys)) + 1]]

\* the values try_dax.go:49 can take
CommandsMsgs == {Join(listOfKeys(s), " | ") : s \in 0..MaxShift}

table      == "TryDaxGoTable"
keyPrefix  == "key"
valPrefix  == "val"
pkMax      == 10
skMax      == 10
iterations == 25

\* command lines considered; -region is not given, so the region flag keeps
\* its default
ServiceArgs  == {"dynamodb", "dax", "s3"}
CommandArgs  == {"create-table", "put-item", "get-item", "query", "scan",
                 "delete-table", "", "list-tables"}
EndpointArgs == {"", "mycluster:8111"}
Args == [service : ServiceArgs, command : CommandArgs,
         endpoint : EndpointArgs, verbose : BOOLEAN]

\* errors of the external calls
SessionError == "session: could not load configuration"
RegionError  == "EC2MetadataRequestError: failed to get region"
DaxError     == "dax: no reachable endpoints"
RequestError(k) == "RequestError: request " \o ToString(k) \o " failed"

-----------------------------------------------------------------------------
(* Pure functions *)

\* part_000:241-248, try_dax.go:308-315
contains(needle, haystack) ==
    \E n \in 1..Len(haystack) : needle = haystack[n]

\* part_000:223-239
validate ==
    IF ~contains(service, services)
    THEN "service should be one of [" \o Join(services, " | ") \o "]"
    ELSE IF ~contains(command, commands)
    THEN "command should be one of [" \o Join(commands, " | ") \o "]"
    ELSE IF service = "dax" /\ Len(endpoint) = 0
    THEN "endpoint should be set for 'dax' service"
    ELSE IF service = "dax" /\ (command = "create-table" \/ command = "delete-table")
    THEN "service 'dax' does not support table operations, use service 'dynamodb'"
    ELSE nil

\* validateTryDax without the endpoint check
validateTryDax_NoEndpoint ==
    IF ~contains(service, services)
    THEN "service should be one of [" \o Join(services, " | ") \o "]"
    ELSE IF command \notin {commandMapKeys[n] : n \in 1..Len(commandMapKeys)}
    THEN "command should be one of [" \o commandsMsg \o "]"
    ELSE nil

\* try_dax.go:293-306
validateTryDax ==
    IF ~contains(service, services)
    THEN "service should be one of [" \o Join(services, " | ") \o "]"
    ELSE IF command \notin DOMAIN commandMap
    THEN "command should be one of [" \o commandsMsg \o "]"
    ELSE IF service = "dax" /\ Len(endpoint) = 0
    THEN "endpoint should be set for 'dax' service"
    ELSE nil

\* executeCommand with the executors of query and scan exchanged
executeCommand_Swapped ==
    CASE command = "create-table" -> "executeCreateTable"
      [] command = "put-item"     -> "executePutItem"
      [] command = "get-item"     -> "executeGetItem"
      [] command = "query"        -> "executeScan"
      [] command = "scan"         -> "executeQuery"
      [] command = "delete-table" -> "executeDeleteTable"
      [] OTHER                    -> ""

\* part_000:56-70, the executor the switch selects, or "" for the fallthrough
executeCommand ==
    CASE command = "create-table" -> "executeCreateTable"
      [] command = "put-item"     -> "executePutItem"
      [] command = "get-item"     -> "executeGetItem"
      [] command = "query"        -> "executeQuery"
      [] command = "scan"         -> "executeScan"
      [] command = "delete-table" -> "executeDeleteTable"
      [] OTHER                    -> ""

\* part_000:74-88, try_dax.go:108-122
CreateTableInput ==
    [op |-> "CreateTable", table |-> table,
     keySchema |-> <<[name |-> "pk", keyType |-> "HASH"],
                     [name |-> "sk", keyType |-> "RANGE"]>>,
     attributeDefinitions |-> <<[name |-> "pk", type |-> "S"],
                                [name |-> "sk", type |-> "N"]>>,
     readCapacityUnits |-> 100, writeCapacityUnits |-> 100]

\* part_000:184, try_dax.go:137
DeleteTableInput == [op |-> "DeleteTable", table |-> table]

\* part_000:100-108, try_dax.go:155-163
PutItemInput(ii, jj) ==
    [op |-> "PutItem", table |-> table,
     pk |-> keyPrefix \o "_" \o ToString(ii),
     sk |-> ToString(jj),
     value |-> valPrefix \o "_" \o ToString(ii) \o "_" \o ToString(jj)]

\* GetItemInput with the loop counters exchanged
GetItemInput_Swapped(ii, jj) ==
    [op |-> "GetItem", table |-> table,
     pk |-> keyPrefix \o "_" \o ToString(jj),
     sk |-> ToString(ii)]

\* part_000:124-131, try_dax.go:185-192
GetItemInput(ii, jj) ==
    [op |-> "GetItem", table |-> table,
     pk |-> keyPrefix \o "_" \o ToString(ii),
     sk |-> ToString(jj)]

\* part_000:148-156, try_dax.go:215-223
QueryInput ==
    [op |-> "Query", table |-> table,
     keyCondition |-> "pk = :pkval and sk between :skval1 and :skval2",
     pkval |-> keyPrefix \o "_" \o ToString(5),
     skval1 |-> ToString(2), skval2 |-> ToString(9)]

\* part_000:171, try_dax.go:244
ScanInput == [op |-> "Scan", table |-> table]

\* GridNext with `j <= skMax` as the inner loop's condition
GridNext_OffByOne(ii, jj) ==
    IF jj + 1 <= skMax THEN <<ii, jj + 1>> ELSE <<ii + 1, 0>>

\* the inner `for j` and outer `for i` of the grid loops: the counters after
\* one pass of the body; i = pkMax when the grid is finished
GridNext(ii, jj) ==
    IF jj + 1 < skMax THEN <<ii, jj + 1>> ELSE <<ii + 1, 0>>

-----------------------------------------------------------------------------
(* External calls *)

\* part_000:206-214, try_dax.go:276-284: session.NewSession creates no
\* connection; dynamodb.New wraps the session
ddbClient(ok) ==
    /\ sessions' = IF ok THEN sessions + 1 ELSE sessions
    /\ client' = IF ok THEN "ddb" ELSE client
    /\ UNCHANGED <<metaCalls, daxDials>>

\* part_000:216-221, try_dax.go:286-291: dax.New dials the cluster endpoint
daxClient(ok) ==
    /\ daxDials' = daxDials + 1
    /\ client' = IF ok THEN "dax" ELSE client
    /\ UNCHANGED <<sessions, metaCalls>>

\* part_000:193-197, try_dax.go:256-260: lines written for one response
writeVerbose == IF verbose THEN 1 ELSE 0

\* one call of a client operation (client.PutItem(in), client.GetItem(in), ...)
\* and the `if err != nil { return err }` / writeVerbose(out) after it
Call(req, ok) ==
    /\ nreq' = nreq + 1
    /\ lastReq' = req
    /\ issued' = issued (+) SetToBag({req})
    /\ failedAt' = IF ok THEN failedAt ELSE nreq + 1
    /\ nVerbose' = IF ok THEN nVerbose + writeVerbose ELSE nVerbose

\* ReturnErr that records the error and goes on with the loop
ReturnErr_Continue ==
    /\ execErr' = RequestError(nreq + 1)
    /\ pc' = pc
    /\ UNCHANGED loopVars

\* `return err` after a failed call: the executor's result is the call's error
ReturnErr ==
    /\ execErr' = RequestError(nreq + 1)
    /\ pc' = "return"
    /\ UNCHANGED loopVars

\* an executor's `return nil`
ReturnNil ==
    /\ execErr' = nil
    /\ pc' = "return"
    /\ UNCHANGED loopVars

\* part_000:140-142, 163-165, 178-180; try_dax.go:201-203, 230-232, 251-253
\* d := time.Since(st) is a reading of the monotonic clock
TimingSummary ==
    \E d \in 0..MaxElapsed :
        /\ summary' = <<d, d \div iterations>>
        /\ nSummary' = nSummary + 1
        /\ summaryAt' = nreq

-----------------------------------------------------------------------------
(* The process *)

Init ==
    /\ variant \in Variants
    /\ args \in Args
    /\ commandsMsg \in (IF variant = TryDax THEN CommandsMsgs ELSE {""})
    /\ service = "dynamodb" /\ command = "" /\ endpoint = "" /\ verbose = FALSE
    /\ region = IF variant = Sample THEN "us-west-2" ELSE ""
    /\ pc = IF variant = Sample THEN "parse" ELSE "session"
    /\ sessions = 0 /\ metaCalls = 0 /\ daxDials = 0 /\ client = "nil"
    /\ executor = {} /\ fallthrough = FALSE
    /\ c = 0 /\ i = 0 /\ j = 0
    /\ nreq = 0 /\ lastReq = NoReq /\ issued = EmptyBag /\ failedAt = 0
    /\ validateErr = NotRun /\ initErr = nil /\ execErr = NotRun
    /\ stderr = <<>> /\ nVerbose = 0
    /\ nSummary = 0 /\ summaryAt = 0 /\ summary = <<0, 0>>
    /\ exitCode = -1
    /\ prevErr = NotRun

\* part_000:38, try_dax.go:93: flag.Parse() stores the command line in the flags
flagParse ==
    /\ pc = "parse"
    /\ service' = args.service
    /\ command' = args.command
    /\ endpoint' = args.endpoint
    /\ verbose' = args.verbose
    /\ pc' = "validate"
    /\ UNCHANGED <<runVars, region, netVars, executor, fallthrough, loopVars,
                   reqVars, validateErr, initErr, execErr, stderr, outVars,
                   exitCode>>

\* part_000:39-42: main returns after the message, so the process exits 0
mainValidate ==
    /\ pc = "validate" /\ variant = Sample
    /\ validateErr' = validate
    /\ IF validate # nil
       THEN /\ stderr' = Append(stderr, "invalid input: " \o validate)
            /\ exitCode' = 0
            /\ pc' = "exit"
       ELSE /\ pc' = "initClient"
            /\ UNCHANGED <<stderr, exitCode>>
    /\ UNCHANGED <<runVars, flagVars, netVars, executor, fallthrough, loopVars,
                   reqVars, initErr, execErr, outVars>>

\* part_000:44-48 with initClient, part_000:199-204
initClient ==
    /\ pc = "initClient"
    /\ \E ok \in BOOLEAN :
        /\ IF service = "dax" THEN daxClient(ok) ELSE ddbClient(ok)
        /\ IF ok
           THEN /\ pc' = "dispatch"
                /\ UNCHANGED <<initErr, stderr, exitCode>>
           ELSE /\ initErr' = IF service = "dax" THEN DaxError ELSE SessionError
                /\ stderr' = Append(stderr, "failed to init client: " \o initErr')
                /\ exitCode' = 0
                /\ pc' = "exit"
    /\ UNCHANGED <<runVars, flagVars, executor, fallthrough, loopVars, reqVars,
                   validateErr, execErr, outVars>>

\* part_000:50 with the switch of executeCommand, part_000:55-71
mainExecuteCommand ==
    /\ pc = "dispatch" /\ variant = Sample
    /\ IF executeCommand # ""
       THEN /\ executor' = executor \cup {executeCommand}
            /\ pc' = "loop"
            /\ UNCHANGED <<fallthrough, execErr>>
       ELSE /\ fallthrough' = TRUE
            /\ execErr' = "unknown command " \o command
            /\ pc' = "return"
            /\ UNCHANGED executor
    /\ UNCHANGED <<runVars, flagVars, netVars, loopVars, reqVars, validateErr,
                   initErr, stderr, outVars, exitCode>>

\* part_000:50-53: the error is written and main returns
mainReturn ==
    /\ pc = "return" /\ variant = Sample
    /\ stderr' = IF execErr # nil
                 THEN Append(stderr, "failed to execute command: " \o execErr)
                 ELSE stderr
    /\ exitCode' = 0
    /\ pc' = "exit"
    /\ UNCHANGED <<runVars, flagVars, netVars, executor, fallthrough, loopVars,
                   reqVars, validateErr, initErr, execErr, outVars>>

-----------------------------------------------------------------------------
(* try_dax.go: initializeOptions and main *)

\* try_dax.go:79-83 (and main, 67-69): the session used to detect the region
initializeOptionsSession ==
    /\ pc = "session"
    /\ \E ok \in BOOLEAN :
        IF ok
        THEN /\ sessions' = sessions + 1
             /\ pc' = "region"
             /\ UNCHANGED <<initErr, stderr, exitCode>>
        ELSE /\ initErr' = SessionError
             /\ stderr' = Append(stderr, SessionError)
             /\ exitCode' = 1
             /\ pc' = "exit"
             /\ UNCHANGED sessions
    /\ UNCHANGED <<runVars, flagVars, metaCalls, daxDials, client, executor,
                   fallthrough, loopVars, reqVars, validateErr, execErr, outVars>>

\* try_dax.go:84-91 (and main, 67-69): md.Region() asks the EC2 metadata service;
\* the answer is the default of the region flag
initializeOptionsRegion ==
    /\ pc = "region"
    /\ metaCalls' = metaCalls + 1
    /\ \E ok \in BOOLEAN :
        IF ok
        THEN /\ region' = "us-east-1"
             /\ pc' = "parse"
             /\ UNCHANGED <<initErr, stderr, exitCode>>
        ELSE /\ initErr' = RegionError
             /\ stderr' = Append(stderr, "Unable to detect region: " \o RegionError)
             /\ exitCode' = 1
             /\ pc' = "exit"
             /\ UNCHANGED region
    /\ UNCHANGED <<runVars, service, command, endpoint, verbose, sessions,
                   daxDials, client, executor, fallthrough, loopVars, reqVars,
                   validateErr, execErr, outVars>>

\* try_dax.go:95-99 (and main, 67-69: os.Exit(1))
initializeOptionsValidate ==
    /\ pc = "validate" /\ variant = TryDax
    /\ validateErr' = validateTryDax
    /\ IF validateTryDax # nil
       THEN /\ stderr' = Append(stderr, "invalid input: " \o validateTryDax)
            /\ exitCode' = 1
            /\ pc' = "exit"
       ELSE /\ pc' = "dispatch"
            /\ UNCHANGED <<stderr, exitCode>>
    /\ UNCHANGED <<runVars, flagVars, netVars, executor, fallthrough, loopVars,
                   reqVars, initErr, execErr, outVars>>

\* try_dax.go:71: commandMap[*command]()
mainDispatch ==
    /\ pc = "dispatch" /\ variant = TryDax
    /\ executor' = executor \cup {commandMap[command]}
    /\ pc' = "init"
    /\ UNCHANGED <<runVars, flagVars, netVars, fallthrough, loopVars, reqVars,
                   validateErr, initErr, execErr, stderr, outVars, exitCode>>

\* initTableClient without the check of the service
initTableClient_NoCheck ==
    /\ pc = "init"
    /\ executor \cap {"executeCreateTable", "executeDeleteTable"} # {}
    /\ \E ok \in BOOLEAN :
        /\ ddbClient(ok)
        /\ execErr' = IF ok THEN execErr ELSE SessionError
        /\ pc' = IF ok THEN "loop" ELSE "return"
    /\ UNCHANGED <<runVars, flagVars, executor, fallthrough, loopVars, reqVars,
                   validateErr, initErr, stderr, outVars, exitCode>>

\* try_dax.go:262-267, called at 103-106 and 132-135
initTableClient ==
    /\ pc = "init"
    /\ executor \cap {"executeCreateTable", "executeDeleteTable"} # {}
    /\ IF service = "dax"
       THEN /\ execErr' = "for table operations use service 'dynamodb'"
            /\ pc' = "return"
            /\ UNCHANGED netVars
       ELSE \E ok \in BOOLEAN :
            /\ ddbClient(ok)
            /\ execErr' = IF ok THEN execErr ELSE SessionError
            /\ pc' = IF ok THEN "loop" ELSE "return"
    /\ UNCHANGED <<runVars, flagVars, executor, fallthrough, loopVars, reqVars,
                   validateErr, initErr, stderr, outVars, exitCode>>

\* try_dax.go:269-274, called at 147-151, 175-179, 207-211, 236-240
initItemClient ==
    /\ pc = "init"
    /\ executor \cap {"executePutItem", "executeGetItem", "executeQuery",
                      "executeScan"} # {}
    /\ \E ok \in BOOLEAN :
        /\ IF service = "dax" THEN daxClient(ok) ELSE ddbClient(ok)
        /\ IF ok
           THEN /\ pc' = "loop"
                /\ UNCHANGED <<execErr, stderr>>
           ELSE /\ execErr' = IF service = "dax" THEN DaxError ELSE SessionError
                /\ stderr' = Append(stderr, "failed to initialize client: " \o execErr')
                /\ pc' = "return"
    /\ UNCHANGED <<runVars, flagVars, executor, fallthrough, loopVars, reqVars,
                   validateErr, initErr, outVars, exitCode>>

\* try_dax.go:71-75
mainExit ==
    /\ pc = "return" /\ variant = TryDax
    /\ IF execErr # nil
       THEN /\ stderr' = Append(stderr, "failed to execute command: " \o execErr)
            /\ exitCode' = 1
       ELSE /\ exitCode' = 0
            /\ UNCHANGED stderr
    /\ pc' = "exit"
    /\ UNCHANGED <<runVars, flagVars, netVars, executor, fallthrough, loopVars,
                   reqVars, validateErr, initErr, execErr, outVars>>

-----------------------------------------------------------------------------
(* The executors, from the point where they hold a client.  Each action is   *)
(* one pass of the loop body, or the code after the loop.                    *)

\* part_000:73-95, try_dax.go:108-128
executeCreateTable ==
    /\ pc = "loop" /\ "executeCreateTable" \in executor
    /\ \E ok \in BOOLEAN :
        /\ Call(CreateTableInput, ok)
        /\ IF ok THEN ReturnNil ELSE ReturnErr
    /\ UNCHANGED <<runVars, flagVars, netVars, executor, fallthrough,
                   validateErr, initErr, stderr, outVars, exitCode>>

\* part_000:183-191, try_dax.go:137-143
executeDeleteTable ==
    /\ pc = "loop" /\ "executeDeleteTable" \in executor
    /\ \E ok \in BOOLEAN :
        /\ Call(DeleteTableInput, ok)
        /\ IF ok THEN ReturnNil ELSE ReturnErr
    /\ UNCHANGED <<runVars, flagVars, netVars, executor, fallthrough,
                   validateErr, initErr, stderr, outVars, exitCode>>

\* part_000:97-117, try_dax.go:153-171
executePutItem ==
    /\ pc = "loop" /\ "executePutItem" \in executor
    /\ IF i < pkMax
       THEN \E ok \in BOOLEAN :
            /\ Call(PutItemInput(i, j), ok)
            /\ IF ok
               THEN /\ i' = GridNext(i, j)[1]
                    /\ j' = GridNext(i, j)[2]
                    /\ UNCHANGED <<c, execErr, pc>>
               ELSE ReturnErr
       ELSE /\ ReturnNil
            /\ UNCHANGED reqVars
    /\ UNCHANGED <<runVars, flagVars, netVars, executor, fallthrough,
                   validateErr, initErr, stderr, outVars, exitCode>>

\* part_000:119-143, try_dax.go:181-203
executeGetItem ==
    /\ pc = "loop" /\ "executeGetItem" \in executor
    /\ IF c < iterations
       THEN \E ok \in BOOLEAN :
            /\ Call(GetItemInput(i, j), ok)
            /\ IF ok
               THEN /\ IF GridNext(i, j)[1] < pkMax
                       THEN /\ i' = GridNext(i, j)[1]
                            /\ j' = GridNext(i, j)[2]
                            /\ c' = c
                       ELSE /\ i' = 0 /\ j' = 0
                            /\ c' = c + 1
                    /\ UNCHANGED <<execErr, pc>>
               ELSE ReturnErr
            /\ UNCHANGED outVars
       ELSE /\ TimingSummary
            /\ ReturnNil
            /\ UNCHANGED reqVars
    /\ UNCHANGED <<runVars, flagVars, netVars, executor, fallthrough,
                   validateErr, initErr, stderr, exitCode>>

\* part_000:145-166, try_dax.go:213-233
executeQuery ==
    /\ pc = "loop" /\ "executeQuery" \in executor
    /\ IF c < iterations
       THEN \E ok \in BOOLEAN :
            /\ Call(QueryInput, ok)
            /\ IF ok
               THEN /\ c' = c + 1
                    /\ UNCHANGED <<i, j, execErr, pc>>
               ELSE ReturnErr
            /\ UNCHANGED outVars
       ELSE /\ TimingSummary
            /\ ReturnNil
            /\ UNCHANGED reqVars
    /\ UNCHANGED <<runVars, flagVars, netVars, executor, fallthrough,
                   validateErr, initErr, stderr, exitCode>>

\* executeScan that writes the timing summary on the error path too
executeScan_SummaryOnError ==
    /\ pc = "loop" /\ "executeScan" \in executor
    /\ IF c < iterations
       THEN \E ok \in BOOLEAN :
            /\ Call(ScanInput, ok)
            /\ IF ok
               THEN /\ c' = c + 1
                    /\ UNCHANGED <<i, j, execErr, pc, outVars>>
               ELSE ReturnErr /\ TimingSummary
       ELSE /\ TimingSummary
            /\ ReturnNil
            /\ UNCHANGED reqVars
    /\ UNCHANGED <<runVars, flagVars, netVars, executor, fallthrough,
                   validateErr, initErr, stderr, exitCode>>

\* part_000:168-181, try_dax.go:242-254
executeScan ==
    /\ pc = "loop" /\ "executeScan" \in executor
    /\ IF c < iterations
       THEN \E ok \in BOOLEAN :
            /\ Call(ScanInput, ok)
            /\ IF ok
               THEN /\ c' = c + 1
                    /\ UNCHANGED <<i, j, execErr, pc>>
               ELSE ReturnErr
            /\ UNCHANGED outVars
       ELSE /\ TimingSummary
            /\ ReturnNil
            /\ UNCHANGED reqVars
    /\ UNCHANGED <<runVars, flagVars, netVars, executor, fallthrough,
                   validateErr, initErr, stderr, exitCode>>

-----------------------------------------------------------------------------
(* A rejected invocation is repeated with the same command line: a new     *)
(* process, whose package-level variables are initialised again.           *)
Rerun ==
    /\ pc = "exit"
    /\ validateErr \notin {NotRun, nil}
    /\ prevErr' = validateErr
    /\ commandsMsg' \in (IF variant = TryDax THEN CommandsMsgs ELSE {""})
    /\ service' = "dynamodb" /\ command' = "" /\ endpoint' = "" /\ verbose' = FALSE
    /\ region' = IF variant = Sample THEN "us-west-2" ELSE ""
    /\ pc' = IF variant = Sample THEN "parse" ELSE "session"
    /\ sessions' = 0 /\ metaCalls' = 0 /\ daxDials' = 0 /\ client' = "nil"
    /\ validateErr' = NotRun /\ initErr' = nil
    /\ stderr' = <<>>
    /\ exitCode' = -1
    /\ UNCHANGED <<variant, args, executor, fallthrough, loopVars, reqVars,
                   execErr, outVars>>

Next ==
    \/ flagParse
    \/ mainValidate
    \/ initClient
    \/ mainExecuteCommand
    \/ mainReturn
    \/ initializeOptionsSession
    \/ initializeOptionsRegion
    \/ initializeOptionsValidate
    \/ mainDispatch
    \/ initTableClient
    \/ initItemClient
    \/ mainExit
    \/ executeCreateTable
    \/ executeDeleteTable
    \/ executePutItem
    \/ executeGetItem
    \/ executeQuery
    \/ executeScan
    \/ Rerun

Spec == Init /\ [][Next]_vars

-----------------------------------------------------------------------------
(* Properties *)

KnownServices == {"dynamodb", "dax"}
KnownCommands == {"create-table", "put-item", "get-item", "query", "scan",
                  "delete-table"}
TableCommands == {"create-table", "delete-table"}
Failed(e)     == e \notin {NotRun, nil}
Last(s)       == s[Len(s)]

\* C1: if validation, client construction or a backend request fails, the
\* process writes a diagnostic to the error stream and exits non-zero; if
\* nothing fails it exits zero (both variants).
C1_ExitStatus ==
    pc = "exit" =>
        IF Failed(validateErr) \/ initErr # nil \/ Failed(execErr)
        THEN Len(stderr) > 0 /\ exitCode # 0
        ELSE exitCode = 0

\* the four rejection causes of the decision table
RejectService  == service \notin KnownServices
RejectCommand  == command \notin KnownCommands
RejectEndpoint == service = "dax" /\ endpoint = ""
RejectTableOp  == service = "dax" /\ command \in TableCommands

\* C2 as stated: in both variants validate returns an error if and only if
\* one of the four rejection causes holds.
C2_ValidateBothVariants ==
    validateErr # NotRun =>
        (validateErr # nil <=>
            (RejectService \/ RejectCommand \/ RejectEndpoint \/ RejectTableOp))

\* C2 as amended: validate of part_000 returns an error if and only if one of
\* the four causes holds; validate of try_dax.go if and only if one of the first
\* three holds (it accepts dax with create-table or delete-table).
C2_ValidateIff ==
    validateErr # NotRun =>
        (validateErr # nil <=>
            \/ RejectService \/ RejectCommand \/ RejectEndpoint
            \/ (variant = Sample /\ RejectTableOp))

\* validate of try_dax.go has accepted dax with a table command
C2_Witness ==
    /\ variant = TryDax /\ validateErr = nil
    /\ service = "dax" /\ command \in TableCommands /\ endpoint # ""

DaxTableRun == args.service = "dax" /\ args.command \in TableCommands
TableUnsupported ==
    {"invalid input: service 'dax' does not support table operations, use service 'dynamodb'",
     "failed to execute command: for table operations use service 'dynamodb'"}
NoDaxTableAccess == nreq = 0 /\ client # "dax" /\ daxDials = 0

\* C3 as stated: with service dax and a table command, whatever the endpoint,
\* no request is issued, no dax client is built, and the run ends in the error
\* that table operations are unsupported (runs in which the session or the
\* region detection of try_dax.go fails are set aside).
C3_AlwaysTableUnsupported ==
    (DaxTableRun /\ initErr = nil) =>
        /\ NoDaxTableAccess
        /\ pc = "exit" => Len(stderr) > 0 /\ Last(stderr) \in TableUnsupported

\* C3 as amended: with service dax and a table command no request is issued and
\* no dax client is built, and the run ends in an error: the table-operations
\* error when the endpoint is set (from validate in part_000, from
\* initTableClient in try_dax.go), the endpoint error when the endpoint is
\* empty, and in try_dax.go the session or region error when that step fails.
C3_TableOpsRejected ==
    DaxTableRun =>
        /\ NoDaxTableAccess
        /\ pc = "exit" =>
            /\ Len(stderr) > 0
            /\ Last(stderr) =
                 IF initErr = SessionError THEN SessionError
                 ELSE IF initErr = RegionError
                 THEN "Unable to detect region: " \o RegionError
                 ELSE IF args.endpoint = ""
                 THEN "invalid input: endpoint should be set for 'dax' service"
                 ELSE IF variant = Sample
                 THEN "invalid input: service 'dax' does not support table operations, use service 'dynamodb'"
                 ELSE "failed to execute command: for table operations use service 'dynamodb'"
            /\ (initErr # nil => variant = TryDax)

\* try_dax.go has rejected create-table on dax in the table-client factory
C3_Witness ==
    /\ variant = TryDax /\ pc = "exit" /\ DaxTableRun /\ args.endpoint # ""
    /\ executor = {"executeCreateTable"}
    /\ execErr = "for table operations use service 'dynamodb'"

\* C4: each rejection message is stable: a second run of the same variant with
\* the same flag values produces the identical message text.
C4_StableMessage ==
    (prevErr # NotRun /\ validateErr # NotRun) => validateErr = prevErr

ValidPair ==
    /\ args.service \in KnownServices /\ args.command \in KnownCommands
    /\ ~(args.service = "dax" /\ args.command \in TableCommands)
    /\ args.service = "dax" => args.endpoint # ""
NamedExecutor ==
    "create-table" :> "executeCreateTable" @@ "put-item" :> "executePutItem" @@
    "get-item" :> "executeGetItem" @@ "query" :> "executeQuery" @@
    "scan" :> "executeScan" @@ "delete-table" :> "executeDeleteTable"
Dispatched == pc \in {"init", "loop", "return"} \/ execErr # NotRun

\* C5: for every valid (service, command) pair validate returns no error and
\* the dispatch invokes exactly the executor named by the command and no other;
\* after a successful validation the unknown-command fallthrough is not reached.
C5_Dispatch ==
    /\ validateErr = nil => ~fallthrough
    /\ ValidPair =>
        /\ validateErr \in {NotRun, nil}
        /\ executor \subseteq {NamedExecutor[args.command]}
        /\ Dispatched => executor = {NamedExecutor[args.command]}

\* the query executor has run to its end on dax
C5_Witness ==
    /\ ValidPair /\ args.command = "query" /\ args.service = "dax"
    /\ pc = "exit" /\ executor = {"executeQuery"} /\ nreq = 25 /\ execErr = nil

ExpectedPut(a, b) ==
    [op |-> "PutItem", table |-> "TryDaxGoTable",
     pk |-> "key_" \o ToString(a), sk |-> ToString(b),
     value |-> "val_" \o ToString(a) \o "_" \o ToString(b)]

\* C6: on a backend that never fails put-item issues exactly 100 PutItem
\* requests, one for each (i, j) in 0..9 x 0..9 with pk "key_<i>", sk <j> and
\* value "val_<i>_<j>", in row-major order, none twice.
C6_PutItemGrid ==
    "executePutItem" \in executor =>
        /\ nreq > 0 => lastReq = ExpectedPut((nreq - 1) \div 10, (nreq - 1) % 10)
        /\ execErr = nil =>
            /\ nreq = 100
            /\ Cardinality(BagToSet(issued)) = 100
            /\ \A a \in 0..9, b \in 0..9 : CopiesIn(ExpectedPut(a, b), issued) = 1

\* put-item has returned after the whole grid
C6_Witness ==
    /\ pc = "exit" /\ executor = {"executePutItem"}
    /\ execErr = nil /\ nreq = 100 /\ failedAt = 0

ExpectedGet(a, b) ==
    [op |-> "GetItem", table |-> "TryDaxGoTable",
     pk |-> "key_" \o ToString(a), sk |-> ToString(b)]

\* C7: on a backend that never fails get-item issues exactly 2500 GetItem
\* requests, each of the 100 grid keys 25 times, one grid pass per iteration,
\* and reports an average that is non-negative and is the elapsed duration
\* divided by 25.
C7_GetItemGrid ==
    "executeGetItem" \in executor =>
        /\ nreq > 0 =>
             lastReq = ExpectedGet(((nreq - 1) \div 10) % 10, (nreq - 1) % 10)
        /\ execErr = nil =>
            /\ nreq = 2500
            /\ Cardinality(BagToSet(issued)) = 100
            /\ \A a \in 0..9, b \in 0..9 : CopiesIn(ExpectedGet(a, b), issued) = 25
            /\ nSummary = 1
            /\ summary[1] >= 0 /\ summary[2] >= 0
            /\ summary[2] = summary[1] \div 25

\* get-item has returned after 25 passes and reported a non-zero average
C7_Witness ==
    /\ pc = "exit" /\ executor = {"executeGetItem"}
    /\ execErr = nil /\ nreq = 2500 /\ summary[1] = 59 /\ summary[2] = 2

Looping == {"executePutItem", "executeGetItem", "executeQuery", "executeScan"}

\* C8: when the backend fails the k-th request of a looping executor, the
\* executor has issued exactly k requests, issues none after it, and returns
\* that k-th failure as its result.
C8_StopAtFirstFailure ==
    (executor \cap Looping # {} /\ failedAt # 0) =>
        /\ nreq = failedAt
        /\ execErr = "RequestError: request " \o ToString(failedAt) \o " failed"
        /\ pc \in {"return", "exit"}

\* put-item has stopped at the failure of its 37th request
C8_Witness ==
    /\ executor = {"executePutItem"} /\ failedAt = 37 /\ nreq = 37
    /\ pc = "exit" /\ i = 3 /\ j = 6

\* C9: in every run whose flags fail validation, no session is created and no
\* request is sent to any remote service before the error is reported.
C9_NoNetworkBeforeValidation ==
    Failed(validateErr) =>
        sessions = 0 /\ metaCalls = 0 /\ daxDials = 0 /\ nreq = 0

TotalRequests ==
    "create-table" :> 1 @@ "put-item" :> 100 @@ "get-item" :> 2500 @@
    "query" :> 25 @@ "scan" :> 25 @@ "delete-table" :> 1

\* C10: the timing summary is written exactly once if and only if the command
\* is get-item, query or scan and every request of all 25 iterations
\* succeeded, after the last request; otherwise it is never written; writing it
\* goes with the result nil.
C10_TimingSummary ==
    /\ nSummary \in {0, 1}
    /\ nSummary = 1 <=>
        /\ command \in {"get-item", "query", "scan"}
        /\ execErr = nil /\ failedAt = 0
        /\ nreq = TotalRequests[command]
    /\ nSummary = 1 => summaryAt = nreq

\* scan has written its summary after the 25th request
C10_Witness ==
    /\ pc = "exit" /\ command = "scan" /\ nSummary = 1 /\ summaryAt = 25
    /\ execErr = nil

====
